---------------------------- MODULE Spec2Model ----------------------------
(***************************************************************************)
(* RAG Studio client (vigyat13/Rag_Pipeline, Frontend/).                   *)
(*                                                                         *)
(* The model follows the React components of the client:                   *)
(*   - services/api.ts        the axios wrapper (interceptor, unwrap)      *)
(*   - context/AuthContext    the Session Store (user, loading, login,     *)
(*                            logout, the load effect)                     *)
(*   - App.tsx                ProtectedRoute and the routes                *)
(*   - pages/Chat.tsx         the Chat view (messages, conversation id,    *)
(*                            persistence effects, poller)                 *)
(*   - pages/Documents.tsx    the Documents view (list, upload, delete,    *)
(*                            poller) and the Analytics view               *)
(*                                                                         *)
(* One action is one run of JavaScript to completion on the event loop: an *)
(* event handler up to its first await, or the continuation of an await    *)
(* when its response arrives, together with the render it causes and the   *)
(* effects of that render (persistence effects, mount and unmount of the   *)
(* routed view).  A request in flight is a record in an *InFlight sequence;*)
(* the sequence order is the order of issue and a response may arrive for  *)
(* any element.  A request whose component has been unmounted stays in     *)
(* flight with live = FALSE: its continuation still runs, but the set-state*)
(* calls of an unmounted component change nothing.  The reads of an        *)
(* unmounted component (GET /documents, the analytics load) change neither *)
(* the backend nor the client when they are answered, and are dropped from *)
(* the in-flight sequences at the unmount.                                 *)
(***************************************************************************)
EXTENDS Integers, Sequences, FiniteSets, TLC

(***************************************************************************)
(* Bounds of the model.                                                    *)
(***************************************************************************)
MaxMe == 2            \* GET /auth/me requests outstanding at once
MaxFetch == 2         \* GET /documents requests outstanding at once
MaxQueries == 2       \* POST /chat/query requests outstanding at once
MaxUploads == 1       \* POST /documents/upload requests outstanding at once
MaxDeletes == 1       \* DELETE /documents/{id} requests outstanding at once
MaxMessages == 4      \* handleSend is taken while Len(messages) is below it
InitialDocs == 2      \* documents on the server when the app is loaded
MaxDocs == 3          \* highest document id the server hands out
MaxFiles == 1         \* files selected for one upload

(***************************************************************************)
(* Values.                                                                 *)
(***************************************************************************)
NoToken == "null"                 \* localStorage.getItem(...) === null
Tokens == {"t1", "t2"}
NoUser == "null"                  \* user === null
UserOf(tok) == IF tok = "t1" THEN "u1" ELSE "u2"

Undefined == "undefined"          \* conversationId === undefined
ConversationIds == {"c1", "c2"}

PublicRoutes == {"/login", "/register"}
ProtectedRoutes == {"/", "/documents", "/analytics", "/settings"}
Routes == PublicRoutes \cup ProtectedRoutes

\* input values of the chat form: empty, whitespace only, and real questions
Texts == {"", " ", "q1", "q2"}
trim(s) == IF s = " " THEN "" ELSE s

DocIds == 1..MaxDocs

VARIABLES
  \* durable client storage (localStorage)
  access_token, chat_messages, chat_conversation_id,
  \* AuthContext
  user, loading, authEffectRun, meInFlight,
  \* router
  route, view,
  \* Chat view
  messages, conversationId, chatIsLoading, chatDocuments, selectedDocIds,
  chatTimer, chatInFlight,
  \* Documents view
  documents, docsIsLoading, isUploading, error, docsTimer,
  uploadInFlight, deleteInFlight,
  \* GET /documents requests of both views, the backend's documents
  fetchInFlight, serverDocs, serverNextId,
  \* Analytics view
  analytics, analyticsInFlight,
  \* the run that has just completed (history)
  lastOp

storageVars == <<access_token, chat_messages, chat_conversation_id>>
authVars == <<user, loading, authEffectRun, meInFlight>>
routerVars == <<route, view>>
chatVars == <<messages, conversationId, chatIsLoading, chatDocuments,
              selectedDocIds, chatTimer, chatInFlight>>
docsVars == <<documents, docsIsLoading, isUploading, error, docsTimer,
              uploadInFlight, deleteInFlight>>
serverVars == <<serverDocs, serverNextId>>
analyticsVars == <<analytics, analyticsInFlight>>
vars == <<storageVars, authVars, routerVars, chatVars, docsVars,
          fetchInFlight, serverVars, analyticsVars, lastOp>>

(***************************************************************************)
(* Sequence helpers.                                                       *)
(***************************************************************************)
RemoveAt(s, i) == SubSeq(s, 1, i - 1) \o SubSeq(s, i + 1, Len(s))

ReplaceAt(s, i, e) == [s EXCEPT ![i] = e]

Range(s) == {s[i] : i \in DOMAIN s}

\* every request of the sequence belongs to a component that is gone
Orphan(s) == [i \in DOMAIN s |-> [s[i] EXCEPT !.live = FALSE]]

IsPrefix(s, t) == Len(s) <= Len(t) /\ SubSeq(t, 1, Len(s)) = s

RECURSIVE SortedSeq(_)
SortedSeq(S) ==
  IF S = {} THEN <<>>
  ELSE LET m == CHOOSE x \in S : \A y \in S : x <= y
       IN <<m>> \o SortedSeq(S \ {m})

\* a completed run: its name, and whether it ended by throwing to its caller
Op(name, thrown) == [op |-> name, thrown |-> thrown]


(***************************************************************************)
(* services/api.ts: the HTTP Client Wrapper.                               *)
(***************************************************************************)
NoAuthorization == [present |-> FALSE, scheme |-> "", credentials |-> ""]

\* the interceptor without its `if (token)` test
AuthorizationUnconditional(tok) ==
  [present |-> TRUE, scheme |-> "Bearer", credentials |-> tok]

\* apiClient.interceptors.request: the Authorization header of a request
\* issued while localStorage holds `tok` under access_token
Authorization(tok) ==
  IF tok # NoToken /\ tok # ""
  THEN [present |-> TRUE, scheme |-> "Bearer", credentials |-> tok]
  ELSE NoAuthorization

\* the backend answers a request with a payload only when it carries a
\* bearer token it knows; it may fail any request
Authorized(auth) ==
  auth.present /\ auth.scheme = "Bearer" /\ auth.credentials \in Tokens

\* AxiosError: response.data.detail, response.data.message, err.message
\* ("" stands for a field that is missing)
Failures ==
  { [kind |-> "auth", detail |-> "Not authenticated", message |-> "",
     errMessage |-> "Request failed with status code 401"],
    [kind |-> "server", detail |-> "", message |-> "Server error",
     errMessage |-> "Request failed with status code 500"],
    [kind |-> "network", detail |-> "", message |-> "",
     errMessage |-> "Network Error"] }

NoFailure == [kind |-> "none", detail |-> "", message |-> "", errMessage |-> ""]

\* unwrap's catch: new Error(msg)
unwrap(f) ==
  IF f.detail # "" THEN f.detail
  ELSE IF f.message # "" THEN f.message
  ELSE IF f.errMessage # "" THEN f.errMessage
  ELSE "Request failed"

(***************************************************************************)
(* Durable storage items and JSON.                                         *)
(***************************************************************************)
\* localStorage.getItem(key): an item, or null when the key is absent
Absent == [present |-> FALSE, value |-> <<>>]
AbsentId == [present |-> FALSE, value |-> ""]
Item(v) == [present |-> TRUE, value |-> v]

JSONstringify(v) == <<"json", v>>
JSONparse(s) == s[2]

(***************************************************************************)
(* App.tsx: ProtectedRoute and the routes.                                 *)
(***************************************************************************)
\* ProtectedRoute without its `if (loading)` branch
ProtectedRouteNoSpinner(u, l) ==
  IF u = NoUser THEN "navigate" ELSE "children"

ProtectedRoute(u, l) ==
  IF l THEN "spinner"
  ELSE IF u = NoUser THEN "navigate"
  ELSE "children"

\* <Navigate to="/login" replace /> rewrites the location
RouteAfter(r, u, l) ==
  IF r \in ProtectedRoutes /\ ProtectedRoute(u, l) = "navigate"
  THEN "/login" ELSE r

\* the page component that the routes render at location r
ViewOf(r, u, l) ==
  IF r \in ProtectedRoutes /\ ProtectedRoute(u, l) = "children"
  THEN CASE r = "/" -> "chat"
         [] r = "/documents" -> "documents"
         [] r = "/analytics" -> "analytics"
         [] OTHER -> "settings"
  ELSE "none"

(***************************************************************************)
(* Mount and unmount of the routed views.                                  *)
(***************************************************************************)
\* Chat.tsx useState initialisers
InitialMessages(item) ==
  IF item.present /\ item.value # <<>> THEN JSONparse(item.value) ELSE <<>>

InitialConversationId(item) ==
  IF item.present /\ item.value # "" THEN item.value ELSE Undefined

\* Chat.tsx persistence effects
PersistMessages(msgs) == Item(JSONstringify(msgs))

PersistConversationId(cid) ==
  IF cid # Undefined /\ cid # "" THEN Item(cid) ELSE AbsentId

\* GET /documents, issued by view `owner`
FetchRequest(owner, bg, upload, tok) ==
  [owner |-> owner, bg |-> bg, upload |-> upload,
   auth |-> Authorization(tok), phase |-> "sent", data |-> <<>>]

NoError == "null"
AnalyticsInitial == [loading |-> TRUE, error |-> NoError, loaded |-> FALSE]

\* the Chat component: constructed and its mount effects run (nv = "chat"),
\* or absent
ChatRemount(nv) ==
  IF nv = "chat"
  THEN LET msgs == InitialMessages(chat_messages)
           cid == InitialConversationId(chat_conversation_id)
       IN /\ messages' = msgs
          /\ conversationId' = cid
          /\ chat_messages' = PersistMessages(msgs)
          /\ chat_conversation_id' = PersistConversationId(cid)
          /\ chatTimer' = TRUE
  ELSE /\ messages' = <<>>
       /\ conversationId' = Undefined
       /\ UNCHANGED <<chat_messages, chat_conversation_id>>
       /\ chatTimer' = FALSE

\* the Documents component if its poll effect returned no cleanup
DocumentsRemountNoCleanup(nv) ==
  /\ documents' = <<>>
  /\ docsIsLoading' = (nv = "documents")
  /\ isUploading' = FALSE
  /\ error' = NoError
  /\ docsTimer' = (docsTimer \/ nv = "documents")

\* the Documents component: constructed and its mount effect run, or absent
DocumentsRemount(nv) ==
  /\ documents' = <<>>
  /\ docsIsLoading' = (nv = "documents")
  /\ isUploading' = FALSE
  /\ error' = NoError
  /\ docsTimer' = (nv = "documents")

\* the render after a run that left the session as (u, l), the location as
\* r and the token as tok: ProtectedRoute decides the view; a view that is
\* replaced is unmounted (its timer cleared, its requests orphaned) and the
\* new one is constructed and runs its mount effects
Commit(u, l, r, tok) ==
  LET r2 == RouteAfter(r, u, l)
      nv == ViewOf(r2, u, l)
  IN /\ route' = r2
     /\ view' = nv
     /\ IF nv = view
        THEN UNCHANGED <<chatVars, docsVars, fetchInFlight, analyticsVars,
                         chat_messages, chat_conversation_id>>
        ELSE /\ ChatRemount(nv)
             /\ chatIsLoading' = FALSE
             /\ chatDocuments' = <<>>
             /\ selectedDocIds' = <<>>
             /\ chatInFlight' = Orphan(chatInFlight)
             /\ DocumentsRemount(nv)
             /\ uploadInFlight' = Orphan(uploadInFlight)
             /\ deleteInFlight' = Orphan(deleteInFlight)
             /\ fetchInFlight' =
                  IF nv = "chat"
                  THEN <<FetchRequest("chat", TRUE, FALSE, tok)>>
                  ELSE IF nv = "documents"
                  THEN <<FetchRequest("documents", FALSE, FALSE, tok)>>
                  ELSE <<>>
             /\ analytics' = AnalyticsInitial
             /\ analyticsInFlight' =
                  IF nv = "analytics"
                  THEN <<[auth |-> Authorization(tok)]>>
                  ELSE <<>>

\* what a run of a mounted view leaves alone: the session and the router
SessionUnchanged == UNCHANGED <<access_token, authVars, routerVars>>

(***************************************************************************)
(* context/AuthContext.tsx: the Session Store.                             *)
(***************************************************************************)
MeRequest(kind, tok) == [kind |-> kind, auth |-> Authorization(tok)]

\* useEffect(..., []) of AuthProvider, up to the await in loadMe
AuthProviderEffect ==
  /\ ~authEffectRun
  /\ authEffectRun' = TRUE
  /\ IF access_token = NoToken \/ access_token = ""
     THEN /\ loading' = FALSE
          /\ meInFlight' = meInFlight
     ELSE /\ loading' = loading
          /\ meInFlight' = Append(meInFlight, MeRequest("init", access_token))
  /\ UNCHANGED <<access_token, user, serverVars>>
  /\ Commit(user, loading', route, access_token)
  /\ lastOp' = Op("AuthProviderEffect", FALSE)

\* loadMe after `await api.get("/auth/me")` returned
loadMeTry(i) ==
  /\ i \in DOMAIN meInFlight
  /\ meInFlight[i].kind = "init"
  /\ Authorized(meInFlight[i].auth)
  /\ meInFlight' = RemoveAt(meInFlight, i)
  /\ user' = UserOf(meInFlight[i].auth.credentials)
  /\ loading' = FALSE
  /\ UNCHANGED <<access_token, authEffectRun, serverVars>>
  /\ Commit(user', FALSE, route, access_token)
  /\ lastOp' = Op("loadMeTry", FALSE)

\* loadMe's catch without localStorage.removeItem("access_token")
loadMeCatchKeepsToken(i) ==
  /\ i \in DOMAIN meInFlight
  /\ meInFlight[i].kind = "init"
  /\ meInFlight' = RemoveAt(meInFlight, i)
  /\ user' = NoUser
  /\ loading' = FALSE
  /\ UNCHANGED <<access_token, authEffectRun, serverVars>>
  /\ Commit(NoUser, FALSE, route, access_token)
  /\ lastOp' = Op("loadMeCatch", FALSE)

\* loadMe after `await api.get("/auth/me")` threw
loadMeCatch(i) ==
  /\ i \in DOMAIN meInFlight
  /\ meInFlight[i].kind = "init"
  /\ meInFlight' = RemoveAt(meInFlight, i)
  /\ access_token' = NoToken
  /\ user' = NoUser
  /\ loading' = FALSE
  /\ UNCHANGED <<authEffectRun, serverVars>>
  /\ Commit(NoUser, FALSE, route, NoToken)
  /\ lastOp' = Op("loadMeCatch", FALSE)

\* login(accessToken) up to its await; called by the Login and Register
\* pages, which the public routes render
login(accessToken) ==
  /\ authEffectRun
  /\ route \in PublicRoutes
  /\ Len(meInFlight) < MaxMe
  /\ access_token' = accessToken
  /\ meInFlight' = Append(meInFlight, MeRequest("login", accessToken))
  /\ UNCHANGED <<user, loading, authEffectRun, serverVars>>
  /\ Commit(user, loading, route, accessToken)
  /\ lastOp' = Op("login", FALSE)

\* login after `await api.get("/auth/me")` returned
loginTry(i) ==
  /\ i \in DOMAIN meInFlight
  /\ meInFlight[i].kind = "login"
  /\ Authorized(meInFlight[i].auth)
  /\ meInFlight' = RemoveAt(meInFlight, i)
  /\ user' = UserOf(meInFlight[i].auth.credentials)
  /\ UNCHANGED <<access_token, loading, authEffectRun, serverVars>>
  /\ Commit(user', loading, route, access_token)
  /\ lastOp' = Op("loginTry", FALSE)

\* login's catch without localStorage.removeItem("access_token")
loginCatchKeepsToken(i) ==
  /\ i \in DOMAIN meInFlight
  /\ meInFlight[i].kind = "login"
  /\ meInFlight' = RemoveAt(meInFlight, i)
  /\ user' = NoUser
  /\ UNCHANGED <<access_token, loading, authEffectRun, serverVars>>
  /\ Commit(NoUser, loading, route, access_token)
  /\ lastOp' = Op("loginCatch", TRUE)

\* login after `await api.get("/auth/me")` threw: roll back and rethrow
loginCatch(i) ==
  /\ i \in DOMAIN meInFlight
  /\ meInFlight[i].kind = "login"
  /\ meInFlight' = RemoveAt(meInFlight, i)
  /\ access_token' = NoToken
  /\ user' = NoUser
  /\ UNCHANGED <<loading, authEffectRun, serverVars>>
  /\ Commit(NoUser, loading, route, NoToken)
  /\ lastOp' = Op("loginCatch", TRUE)

\* logout without setUser(null)
logoutKeepsUser ==
  /\ view # "none"
  /\ access_token' = NoToken
  /\ UNCHANGED <<user, loading, authEffectRun, meInFlight, serverVars>>
  /\ Commit(user, loading, "/login", NoToken)
  /\ lastOp' = Op("logout", FALSE)

\* logout(), the button of Layout (rendered inside ProtectedRoute)
logout ==
  /\ view # "none"
  /\ access_token' = NoToken
  /\ user' = NoUser
  /\ UNCHANGED <<loading, authEffectRun, meInFlight, serverVars>>
  /\ Commit(NoUser, loading, "/login", NoToken)
  /\ lastOp' = Op("logout", FALSE)

\* the location changes: a NavLink of Layout, or the address bar
Navigate(r) ==
  /\ authEffectRun
  /\ r \in Routes
  /\ r # route
  /\ UNCHANGED <<access_token, authVars, serverVars>>
  /\ Commit(user, loading, r, access_token)
  /\ lastOp' = Op("Navigate", FALSE)


(***************************************************************************)
(* pages/Chat.tsx: the Chat view.                                          *)
(***************************************************************************)
\* POST /chat/query answers (types.ts ChatResponse); conversation_id ""
\* stands for a response that carries none
Responses ==
  { [answer |-> "a1", sources |-> <<"s1", "s2">>, used_agent_mode |-> "default",
     token_usage |-> [prompt_tokens |-> 7, completion_tokens |-> 3,
                      total_tokens |-> 10],
     latency_ms |-> 5, conversation_id |-> "c1"],
    [answer |-> "a2", sources |-> <<>>, used_agent_mode |-> "research",
     token_usage |-> [prompt_tokens |-> 12, completion_tokens |-> 8,
                      total_tokens |-> 20],
     latency_ms |-> 7, conversation_id |-> "c2"],
    [answer |-> "a3", sources |-> <<"s1">>, used_agent_mode |-> "default",
     token_usage |-> [prompt_tokens |-> 21, completion_tokens |-> 9,
                      total_tokens |-> 30],
     latency_ms |-> 9, conversation_id |-> ""] }

userMessage(input) == [id |-> "now", role |-> "user", content |-> input]

\* aiMessage with metrics.tokens taken from token_usage.prompt_tokens
aiMessagePromptTokens(response) ==
  [id |-> "now_ai", role |-> "assistant", content |-> response.answer,
   sources |-> response.sources,
   metrics |-> [tokens |-> response.token_usage.prompt_tokens,
                latency |-> response.latency_ms,
                agent |-> response.used_agent_mode]]

aiMessage(response) ==
  [id |-> "now_ai", role |-> "assistant", content |-> response.answer,
   sources |-> response.sources,
   metrics |-> [tokens |-> response.token_usage.total_tokens,
                latency |-> response.latency_ms,
                agent |-> response.used_agent_mode]]

errorMessage(errMessage) ==
  [id |-> "now_err", role |-> "assistant",
   content |-> "Error: " \o (IF errMessage # "" THEN errMessage
                             ELSE "Something went wrong.")]

\* the body of POST /chat/query with the interceptor's header
QueryRequest(input, tok) ==
  [query |-> input, conversation_id |-> conversationId,
   selected_document_ids |-> selectedDocIds,
   live |-> TRUE, auth |-> Authorization(tok)]

\* what a run of the Chat view leaves alone
ChatFrame ==
  /\ SessionUnchanged
  /\ UNCHANGED <<docsVars, serverVars, analyticsVars>>

\* handleSend returns at its guard: blank input or a request in flight
handleSendReturn(input) ==
  /\ view = "chat"
  /\ input \in Texts
  /\ trim(input) = "" \/ chatIsLoading
  /\ ChatFrame
  /\ UNCHANGED <<chatVars, fetchInFlight, chat_messages, chat_conversation_id>>
  /\ lastOp' = Op("handleSendReturn", FALSE)

\* handleSend with setMessages(prev => [userMessage, ...prev])
handleSendPrepends(input) ==
  /\ view = "chat"
  /\ input \in Texts
  /\ ~(trim(input) = "" \/ chatIsLoading)
  /\ Len(messages) < MaxMessages
  /\ Len(chatInFlight) < MaxQueries
  /\ messages' = <<userMessage(input)>> \o messages
  /\ chatIsLoading' = TRUE
  /\ chatInFlight' = Append(chatInFlight, QueryRequest(input, access_token))
  /\ chat_messages' = PersistMessages(messages')
  /\ ChatFrame
  /\ UNCHANGED <<conversationId, chatDocuments, selectedDocIds, chatTimer,
                 fetchInFlight, chat_conversation_id>>
  /\ lastOp' = Op("handleSend", FALSE)

\* handleSend up to `await api.post("/chat/query", ...)`
handleSend(input) ==
  /\ view = "chat"
  /\ input \in Texts
  /\ ~(trim(input) = "" \/ chatIsLoading)
  /\ Len(messages) < MaxMessages
  /\ Len(chatInFlight) < MaxQueries
  /\ messages' = Append(messages, userMessage(input))
  /\ chatIsLoading' = TRUE
  /\ chatInFlight' = Append(chatInFlight, QueryRequest(input, access_token))
  /\ chat_messages' = PersistMessages(messages')
  /\ ChatFrame
  /\ UNCHANGED <<conversationId, chatDocuments, selectedDocIds, chatTimer,
                 fetchInFlight, chat_conversation_id>>
  /\ lastOp' = Op("handleSend", FALSE)

\* handleSend after the await returned `response`
handleSendTry(i, response) ==
  /\ i \in DOMAIN chatInFlight
  /\ response \in Responses
  /\ Authorized(chatInFlight[i].auth)
  /\ chatInFlight' = RemoveAt(chatInFlight, i)
  /\ IF chatInFlight[i].live
     THEN /\ conversationId' =
               IF response.conversation_id # ""
               THEN response.conversation_id ELSE conversationId
          /\ messages' = Append(messages, aiMessage(response))
          /\ chatIsLoading' = FALSE
          /\ chat_messages' = PersistMessages(messages')
          /\ chat_conversation_id' = PersistConversationId(conversationId')
     ELSE UNCHANGED <<conversationId, messages, chatIsLoading, chat_messages,
                      chat_conversation_id>>
  /\ ChatFrame
  /\ UNCHANGED <<chatDocuments, selectedDocIds, chatTimer, fetchInFlight>>
  /\ lastOp' = Op("handleSendTry", FALSE)

\* handleSend's catch without the finally that clears the in-flight flag
handleSendCatchNoFinally(i, f) ==
  /\ i \in DOMAIN chatInFlight
  /\ f \in Failures
  /\ chatInFlight' = RemoveAt(chatInFlight, i)
  /\ IF chatInFlight[i].live
     THEN /\ messages' = Append(messages, errorMessage(unwrap(f)))
          /\ chat_messages' = PersistMessages(messages')
     ELSE UNCHANGED <<messages, chat_messages>>
  /\ ChatFrame
  /\ UNCHANGED <<conversationId, chatIsLoading, chatDocuments, selectedDocIds,
                 chatTimer, fetchInFlight, chat_conversation_id>>
  /\ lastOp' = Op("handleSendCatch", FALSE)

\* handleSend after the await threw: the error becomes a message
handleSendCatch(i, f) ==
  /\ i \in DOMAIN chatInFlight
  /\ f \in Failures
  /\ chatInFlight' = RemoveAt(chatInFlight, i)
  /\ IF chatInFlight[i].live
     THEN /\ messages' = Append(messages, errorMessage(unwrap(f)))
          /\ chatIsLoading' = FALSE
          /\ chat_messages' = PersistMessages(messages')
     ELSE UNCHANGED <<messages, chatIsLoading, chat_messages>>
  /\ ChatFrame
  /\ UNCHANGED <<conversationId, chatDocuments, selectedDocIds, chatTimer,
                 fetchInFlight, chat_conversation_id>>
  /\ lastOp' = Op("handleSendCatch", FALSE)

\* handleClearChat if the messages effect did not run after it: the keys
\* stay as the handler's removeItem calls leave them
handleClearChatNoEffect(confirmed) ==
  /\ view = "chat"
  /\ confirmed \in BOOLEAN
  /\ IF confirmed
     THEN /\ messages' = <<>>
          /\ conversationId' = Undefined
          /\ chat_messages' = Absent
          /\ chat_conversation_id' = AbsentId
     ELSE UNCHANGED <<messages, conversationId, chat_messages,
                      chat_conversation_id>>
  /\ ChatFrame
  /\ UNCHANGED <<chatIsLoading, chatDocuments, selectedDocIds, chatTimer,
                 chatInFlight, fetchInFlight>>
  /\ lastOp' = Op(IF confirmed THEN "handleClearChat"
                  ELSE "handleClearChatReturn", FALSE)

\* handleClearChat if it also cancelled the request in flight
handleClearChatCancels(confirmed) ==
  /\ view = "chat"
  /\ confirmed \in BOOLEAN
  /\ IF confirmed
     THEN /\ messages' = <<>>
          /\ conversationId' = Undefined
          /\ chat_messages' = PersistMessages(messages')
          /\ chat_conversation_id' = PersistConversationId(conversationId')
          /\ chatInFlight' = <<>>
          /\ chatIsLoading' = FALSE
     ELSE UNCHANGED <<messages, conversationId, chat_messages,
                      chat_conversation_id, chatInFlight, chatIsLoading>>
  /\ ChatFrame
  /\ UNCHANGED <<chatDocuments, selectedDocIds, chatTimer, fetchInFlight>>
  /\ lastOp' = Op(IF confirmed THEN "handleClearChat"
                  ELSE "handleClearChatReturn", FALSE)

\* handleClearChat: the handler removes both keys; the render that follows
\* sees a new `messages` array, so the messages effect runs again
handleClearChat(confirmed) ==
  /\ view = "chat"
  /\ confirmed \in BOOLEAN
  /\ IF confirmed
     THEN /\ messages' = <<>>
          /\ conversationId' = Undefined
          /\ chat_messages' = PersistMessages(messages')
          /\ chat_conversation_id' = PersistConversationId(conversationId')
     ELSE UNCHANGED <<messages, conversationId, chat_messages,
                      chat_conversation_id>>
  /\ ChatFrame
  /\ UNCHANGED <<chatIsLoading, chatDocuments, selectedDocIds, chatTimer,
                 chatInFlight, fetchInFlight>>
  /\ lastOp' = Op(IF confirmed THEN "handleClearChat"
                  ELSE "handleClearChatReturn", FALSE)

\* prev.includes(id) ? prev.filter(d => d !== id) : [...prev, id], with the
\* test inverted
toggleInverted(prev, id) ==
  IF id \notin Range(prev)
  THEN SelectSeq(prev, LAMBDA d : d # id)
  ELSE Append(prev, id)

\* prev.includes(id) ? prev.filter(d => d !== id) : [...prev, id]
toggle(prev, id) ==
  IF id \in Range(prev)
  THEN SelectSeq(prev, LAMBDA d : d # id)
  ELSE Append(prev, id)

\* toggleDocSelection(id): a click on a row of the document selector
toggleDocSelection(id) ==
  /\ view = "chat"
  /\ id \in Range(chatDocuments)
  /\ selectedDocIds' = toggle(selectedDocIds, id)
  /\ ChatFrame
  /\ UNCHANGED <<messages, conversationId, chatIsLoading, chatDocuments,
                 chatTimer, chatInFlight, fetchInFlight, chat_messages,
                 chat_conversation_id>>
  /\ lastOp' = Op("toggleDocSelection", FALSE)

\* the "Clear selection" button: setSelectedDocIds([])
clearSelection ==
  /\ view = "chat"
  /\ selectedDocIds' = <<>>
  /\ ChatFrame
  /\ UNCHANGED <<messages, conversationId, chatIsLoading, chatDocuments,
                 chatTimer, chatInFlight, fetchInFlight, chat_messages,
                 chat_conversation_id>>
  /\ lastOp' = Op("clearSelection", FALSE)

\* setInterval(fetchDocs, 30000) fires: fetchDocs up to its await
ChatPollTick ==
  /\ chatTimer
  /\ Len(fetchInFlight) < MaxFetch
  /\ fetchInFlight' =
       Append(fetchInFlight, FetchRequest("chat", TRUE, FALSE, access_token))
  /\ ChatFrame
  /\ UNCHANGED <<chatVars, chat_messages, chat_conversation_id>>
  /\ lastOp' = Op("ChatPollTick", FALSE)


(***************************************************************************)
(* The backend's side of /documents.                                       *)
(***************************************************************************)
\* the backend reads its documents for a GET /documents
ServerAnswerFetch(i) ==
  /\ i \in DOMAIN fetchInFlight
  /\ fetchInFlight[i].phase = "sent"
  /\ Authorized(fetchInFlight[i].auth)
  /\ fetchInFlight' =
       ReplaceAt(fetchInFlight, i,
                 [fetchInFlight[i] EXCEPT !.phase = "done",
                                          !.data = SortedSeq(serverDocs)])
  /\ UNCHANGED <<storageVars, authVars, routerVars, chatVars, docsVars,
                 serverVars, analyticsVars>>
  /\ lastOp' = Op("ServerAnswerFetch", FALSE)

\* the backend stores the files of a POST /documents/upload
ServerAnswerUpload(i) ==
  /\ i \in DOMAIN uploadInFlight
  /\ uploadInFlight[i].phase = "sent"
  /\ Authorized(uploadInFlight[i].auth)
  /\ serverNextId + uploadInFlight[i].files - 1 <= MaxDocs
  /\ serverDocs' = serverDocs \cup
                     (serverNextId .. (serverNextId + uploadInFlight[i].files - 1))
  /\ serverNextId' = serverNextId + uploadInFlight[i].files
  /\ uploadInFlight' =
       ReplaceAt(uploadInFlight, i, [uploadInFlight[i] EXCEPT !.phase = "done"])
  /\ UNCHANGED <<storageVars, authVars, routerVars, chatVars, documents,
                 docsIsLoading, isUploading, error, docsTimer, deleteInFlight,
                 fetchInFlight, analyticsVars>>
  /\ lastOp' = Op("ServerAnswerUpload", FALSE)

\* the backend removes the document of a DELETE /documents/{id}
ServerAnswerDelete(i) ==
  /\ i \in DOMAIN deleteInFlight
  /\ deleteInFlight[i].phase = "sent"
  /\ Authorized(deleteInFlight[i].auth)
  /\ deleteInFlight[i].id \in serverDocs
  /\ serverDocs' = serverDocs \ {deleteInFlight[i].id}
  /\ deleteInFlight' =
       ReplaceAt(deleteInFlight, i, [deleteInFlight[i] EXCEPT !.phase = "done"])
  /\ UNCHANGED <<storageVars, authVars, routerVars, chatVars, documents,
                 docsIsLoading, isUploading, error, docsTimer, uploadInFlight,
                 fetchInFlight, serverNextId, analyticsVars>>
  /\ lastOp' = Op("ServerAnswerDelete", FALSE)

(***************************************************************************)
(* pages/Documents.tsx: the Documents view; fetchDocs of pages/Chat.tsx.   *)
(***************************************************************************)
\* what a run of the Documents view leaves alone
DocumentsFrame ==
  /\ SessionUnchanged
  /\ UNCHANGED <<chat_messages, chat_conversation_id, chatVars, serverVars,
                 analyticsVars>>

\* setInterval(() => fetchDocuments(true), 10000) fires: fetchDocuments up
\* to its await
DocsPollTick ==
  /\ docsTimer
  /\ Len(fetchInFlight) < MaxFetch
  /\ fetchInFlight' =
       Append(fetchInFlight,
              FetchRequest("documents", TRUE, FALSE, access_token))
  /\ DocumentsFrame
  /\ UNCHANGED docsVars
  /\ lastOp' = Op("DocsPollTick", FALSE)

\* handleFileUpload without its finally
isUploadingNoFinally(r) == isUploading

\* after a foreground fetchDocuments has run its finally, the caller that
\* awaited it goes on: handleFileUpload resets the input and runs its own
\* finally
isUploadingAfterFetch(r) == IF r.upload THEN FALSE ELSE isUploading

\* fetchDocuments(isBackground) after the await returned
fetchDocumentsTry(i) ==
  /\ i \in DOMAIN fetchInFlight
  /\ fetchInFlight[i].owner = "documents"
  /\ fetchInFlight[i].phase = "done"
  /\ fetchInFlight' = RemoveAt(fetchInFlight, i)
  /\ documents' = fetchInFlight[i].data
  /\ docsIsLoading' = IF fetchInFlight[i].bg THEN docsIsLoading ELSE FALSE
  /\ isUploading' = isUploadingAfterFetch(fetchInFlight[i])
  /\ DocumentsFrame
  /\ UNCHANGED <<error, docsTimer, uploadInFlight, deleteInFlight>>
  /\ lastOp' = Op("fetchDocumentsTry", FALSE)

\* fetchDocuments' catch calling setError whatever isBackground is
fetchDocumentsCatchLoud(i) ==
  /\ i \in DOMAIN fetchInFlight
  /\ fetchInFlight[i].owner = "documents"
  /\ fetchInFlight[i].phase = "sent"
  /\ fetchInFlight' = RemoveAt(fetchInFlight, i)
  /\ error' = "Failed to load documents"
  /\ docsIsLoading' = IF fetchInFlight[i].bg THEN docsIsLoading ELSE FALSE
  /\ isUploading' = isUploadingAfterFetch(fetchInFlight[i])
  /\ DocumentsFrame
  /\ UNCHANGED <<documents, docsTimer, uploadInFlight, deleteInFlight>>
  /\ lastOp' = Op("fetchDocumentsCatch", FALSE)

\* fetchDocuments(isBackground) after the await threw
fetchDocumentsCatch(i) ==
  /\ i \in DOMAIN fetchInFlight
  /\ fetchInFlight[i].owner = "documents"
  /\ fetchInFlight[i].phase = "sent"
  /\ fetchInFlight' = RemoveAt(fetchInFlight, i)
  /\ error' = IF fetchInFlight[i].bg THEN error ELSE "Failed to load documents"
  /\ docsIsLoading' = IF fetchInFlight[i].bg THEN docsIsLoading ELSE FALSE
  /\ isUploading' = isUploadingAfterFetch(fetchInFlight[i])
  /\ DocumentsFrame
  /\ UNCHANGED <<documents, docsTimer, uploadInFlight, deleteInFlight>>
  /\ lastOp' = Op("fetchDocumentsCatch", FALSE)

\* Chat.tsx fetchDocs after the await returned
fetchDocsTry(i) ==
  /\ i \in DOMAIN fetchInFlight
  /\ fetchInFlight[i].owner = "chat"
  /\ fetchInFlight[i].phase = "done"
  /\ fetchInFlight' = RemoveAt(fetchInFlight, i)
  /\ chatDocuments' = fetchInFlight[i].data
  /\ SessionUnchanged
  /\ UNCHANGED <<chat_messages, chat_conversation_id, messages, conversationId,
                 chatIsLoading, selectedDocIds, chatTimer, chatInFlight,
                 docsVars, serverVars, analyticsVars>>
  /\ lastOp' = Op("fetchDocsTry", FALSE)

\* Chat.tsx fetchDocs after the await threw: console.error only
fetchDocsCatch(i) ==
  /\ i \in DOMAIN fetchInFlight
  /\ fetchInFlight[i].owner = "chat"
  /\ fetchInFlight[i].phase = "sent"
  /\ fetchInFlight' = RemoveAt(fetchInFlight, i)
  /\ SessionUnchanged
  /\ UNCHANGED <<chat_messages, chat_conversation_id, chatVars, docsVars,
                 serverVars, analyticsVars>>
  /\ lastOp' = Op("fetchDocsCatch", FALSE)

\* handleFileUpload up to `await api.postMultipart(...)`; the file input is
\* disabled while isUploading, and an empty selection returns at once
handleFileUpload(files) ==
  /\ view = "documents"
  /\ ~isUploading
  /\ files \in 0..MaxFiles
  /\ IF files = 0
     THEN UNCHANGED <<isUploading, error, uploadInFlight>>
     ELSE /\ Len(uploadInFlight) < MaxUploads
          /\ isUploading' = TRUE
          /\ error' = NoError
          /\ uploadInFlight' =
               Append(uploadInFlight,
                      [files |-> files, live |-> TRUE, phase |-> "sent",
                       auth |-> Authorization(access_token)])
  /\ DocumentsFrame
  /\ UNCHANGED <<documents, docsIsLoading, docsTimer, deleteInFlight,
                 fetchInFlight>>
  /\ lastOp' = Op("handleFileUpload", FALSE)

\* handleFileUpload after the upload returned: `await fetchDocuments(false)`
\* up to the await inside it
handleFileUploadTry(i) ==
  /\ i \in DOMAIN uploadInFlight
  /\ uploadInFlight[i].phase = "done"
  /\ uploadInFlight' = RemoveAt(uploadInFlight, i)
  /\ IF uploadInFlight[i].live
     THEN /\ Len(fetchInFlight) < MaxFetch
          /\ docsIsLoading' = TRUE
          /\ fetchInFlight' =
               Append(fetchInFlight,
                      FetchRequest("documents", FALSE, TRUE, access_token))
     ELSE UNCHANGED <<docsIsLoading, fetchInFlight>>
  /\ DocumentsFrame
  /\ UNCHANGED <<documents, isUploading, error, docsTimer, deleteInFlight>>
  /\ lastOp' = Op("handleFileUploadTry", FALSE)

\* handleFileUpload's catch without the finally that clears isUploading
handleFileUploadCatchNoFinally(i, f) ==
  /\ i \in DOMAIN uploadInFlight
  /\ f \in Failures
  /\ uploadInFlight[i].phase = "sent"
  /\ uploadInFlight' = RemoveAt(uploadInFlight, i)
  /\ IF uploadInFlight[i].live
     THEN error' = IF unwrap(f) # "" THEN unwrap(f) ELSE "Upload failed"
     ELSE UNCHANGED error
  /\ DocumentsFrame
  /\ UNCHANGED <<documents, docsIsLoading, isUploading, docsTimer,
                 deleteInFlight, fetchInFlight>>
  /\ lastOp' = Op("handleFileUploadCatch", FALSE)

\* handleFileUpload after the upload threw
handleFileUploadCatch(i, f) ==
  /\ i \in DOMAIN uploadInFlight
  /\ f \in Failures
  /\ uploadInFlight[i].phase = "sent"
  /\ uploadInFlight' = RemoveAt(uploadInFlight, i)
  /\ IF uploadInFlight[i].live
     THEN /\ error' = IF unwrap(f) # "" THEN unwrap(f) ELSE "Upload failed"
          /\ isUploading' = FALSE
     ELSE UNCHANGED <<error, isUploading>>
  /\ DocumentsFrame
  /\ UNCHANGED <<documents, docsIsLoading, docsTimer, deleteInFlight,
                 fetchInFlight>>
  /\ lastOp' = Op("handleFileUploadCatch", FALSE)

\* filter(doc => doc.id === id)
filterKeepsId(docs, id) == SelectSeq(docs, LAMBDA d : d = id)

\* filter(doc => doc.id !== id)
filter(docs, id) == SelectSeq(docs, LAMBDA d : d # id)

\* handleDelete up to `await api.delete(...)`; the button belongs to a row
\* of the table
handleDelete(id, confirmed) ==
  /\ view = "documents"
  /\ id \in Range(documents)
  /\ confirmed \in BOOLEAN
  /\ IF confirmed
     THEN /\ Len(deleteInFlight) < MaxDeletes
          /\ deleteInFlight' =
               Append(deleteInFlight,
                      [id |-> id, live |-> TRUE, phase |-> "sent",
                       auth |-> Authorization(access_token)])
     ELSE UNCHANGED deleteInFlight
  /\ DocumentsFrame
  /\ UNCHANGED <<documents, docsIsLoading, isUploading, error, docsTimer,
                 uploadInFlight, fetchInFlight>>
  /\ lastOp' = Op(IF confirmed THEN "handleDelete" ELSE "handleDeleteReturn",
                  FALSE)

\* handleDelete after the await returned
handleDeleteTry(i) ==
  /\ i \in DOMAIN deleteInFlight
  /\ deleteInFlight[i].phase = "done"
  /\ deleteInFlight' = RemoveAt(deleteInFlight, i)
  /\ documents' = IF deleteInFlight[i].live
                  THEN filter(documents, deleteInFlight[i].id)
                  ELSE documents
  /\ DocumentsFrame
  /\ UNCHANGED <<docsIsLoading, isUploading, error, docsTimer, uploadInFlight,
                 fetchInFlight>>
  /\ lastOp' = Op("handleDeleteTry", FALSE)

\* handleDelete after the await threw: alert only
handleDeleteCatch(i) ==
  /\ i \in DOMAIN deleteInFlight
  /\ deleteInFlight[i].phase = "sent"
  /\ deleteInFlight' = RemoveAt(deleteInFlight, i)
  /\ DocumentsFrame
  /\ UNCHANGED <<documents, docsIsLoading, isUploading, error, docsTimer,
                 uploadInFlight, fetchInFlight>>
  /\ lastOp' = Op("handleDeleteCatch", FALSE)

(***************************************************************************)
(* The Analytics view (second half of pages/Documents.tsx).                *)
(***************************************************************************)
AnalyticsFrame ==
  /\ SessionUnchanged
  /\ UNCHANGED <<chat_messages, chat_conversation_id, chatVars, docsVars,
                 fetchInFlight, serverVars>>

\* load after `await Promise.all([...])` returned
analyticsLoadTry(i) ==
  /\ i \in DOMAIN analyticsInFlight
  /\ Authorized(analyticsInFlight[i].auth)
  /\ analyticsInFlight' = RemoveAt(analyticsInFlight, i)
  /\ analytics' = [loading |-> FALSE, error |-> NoError, loaded |-> TRUE]
  /\ AnalyticsFrame
  /\ lastOp' = Op("analyticsLoadTry", FALSE)

\* load after the await threw: apiClient is used directly, so err is the
\* AxiosError itself
analyticsLoadCatch(i, f) ==
  /\ i \in DOMAIN analyticsInFlight
  /\ f \in Failures
  /\ analyticsInFlight' = RemoveAt(analyticsInFlight, i)
  /\ analytics' = [loading |-> FALSE,
                   error |-> IF f.errMessage # "" THEN f.errMessage
                             ELSE "Failed to load analytics",
                   loaded |-> analytics.loaded]
  /\ AnalyticsFrame
  /\ lastOp' = Op("analyticsLoadCatch", FALSE)

(***************************************************************************)
(* The state when the page has been loaded and AuthProvider constructed:   *)
(* localStorage is what an earlier session left.                           *)
(***************************************************************************)
EarlierMessages ==
  { <<>>, <<userMessage("q1"), aiMessage(CHOOSE r \in Responses : r.answer = "a1")>> }

Init ==
  /\ access_token \in {NoToken} \cup Tokens
  /\ \/ /\ chat_messages = Absent
        /\ chat_conversation_id = AbsentId
     \/ /\ chat_messages \in {PersistMessages(m) : m \in EarlierMessages}
        /\ chat_conversation_id \in {AbsentId, Item("c1")}
  /\ user = NoUser
  /\ loading = TRUE
  /\ authEffectRun = FALSE
  /\ meInFlight = <<>>
  /\ route \in Routes
  /\ view = "none"
  /\ messages = <<>>
  /\ conversationId = Undefined
  /\ chatIsLoading = FALSE
  /\ chatDocuments = <<>>
  /\ selectedDocIds = <<>>
  /\ chatTimer = FALSE
  /\ chatInFlight = <<>>
  /\ documents = <<>>
  /\ docsIsLoading = FALSE
  /\ isUploading = FALSE
  /\ error = NoError
  /\ docsTimer = FALSE
  /\ uploadInFlight = <<>>
  /\ deleteInFlight = <<>>
  /\ fetchInFlight = <<>>
  /\ serverDocs = 1..InitialDocs
  /\ serverNextId = InitialDocs + 1
  /\ analytics = AnalyticsInitial
  /\ analyticsInFlight = <<>>
  /\ lastOp = Op("load", FALSE)


(***************************************************************************)
(* Specifications.                                                         *)
(***************************************************************************)
SessionNext ==
  \/ AuthProviderEffect
  \/ \E i \in DOMAIN meInFlight : loadMeTry(i)
  \/ \E i \in DOMAIN meInFlight : loadMeCatch(i)
  \/ \E accessToken \in Tokens : login(accessToken)
  \/ \E i \in DOMAIN meInFlight : loginTry(i)
  \/ \E i \in DOMAIN meInFlight : loginCatch(i)
  \/ logout

ChatNext ==
  \/ \E input \in Texts : handleSendReturn(input)
  \/ \E input \in Texts : handleSend(input)
  \/ \E i \in DOMAIN chatInFlight, response \in Responses : handleSendTry(i, response)
  \/ \E i \in DOMAIN chatInFlight, f \in Failures : handleSendCatch(i, f)
  \/ \E confirmed \in BOOLEAN : handleClearChat(confirmed)

FetchNext ==
  \/ \E i \in DOMAIN fetchInFlight : ServerAnswerFetch(i)
  \/ \E i \in DOMAIN fetchInFlight : fetchDocumentsTry(i)
  \/ \E i \in DOMAIN fetchInFlight : fetchDocumentsCatch(i)
  \/ \E i \in DOMAIN fetchInFlight : fetchDocsTry(i)
  \/ \E i \in DOMAIN fetchInFlight : fetchDocsCatch(i)

DocumentsNext ==
  \/ DocsPollTick
  \/ \E files \in 0..MaxFiles : handleFileUpload(files)
  \/ \E i \in DOMAIN uploadInFlight : ServerAnswerUpload(i)
  \/ \E i \in DOMAIN uploadInFlight : handleFileUploadTry(i)
  \/ \E i \in DOMAIN uploadInFlight, f \in Failures : handleFileUploadCatch(i, f)
  \/ \E id \in DocIds, confirmed \in BOOLEAN : handleDelete(id, confirmed)
  \/ \E i \in DOMAIN deleteInFlight : ServerAnswerDelete(i)
  \/ \E i \in DOMAIN deleteInFlight : handleDeleteTry(i)
  \/ \E i \in DOMAIN deleteInFlight : handleDeleteCatch(i)

SelectionNext ==
  \/ \E id \in DocIds : toggleDocSelection(id)
  \/ clearSelection

AnalyticsNext ==
  \/ \E i \in DOMAIN analyticsInFlight : analyticsLoadTry(i)
  \/ \E i \in DOMAIN analyticsInFlight, f \in Failures : analyticsLoadCatch(i, f)

\* the whole client
Next ==
  \/ SessionNext
  \/ \E r \in Routes : Navigate(r)
  \/ ChatNext
  \/ SelectionNext
  \/ ChatPollTick
  \/ FetchNext
  \/ DocumentsNext
  \/ AnalyticsNext

Spec == Init /\ [][Next]_vars

\* the Session Store with the router: the views are mounted and unmounted,
\* run their mount effects and their pollers, and their requests are answered
SessionSpecInit ==
  /\ Init
  /\ chat_messages = Absent

SessionSpecNext ==
  \/ SessionNext
  \/ \E r \in Routes : Navigate(r)
  \/ ChatPollTick
  \/ DocsPollTick
  \/ FetchNext
  \/ AnalyticsNext

SpecSession == SessionSpecInit /\ [][SessionSpecNext]_vars

\* a session that stays signed in, on the Chat view and off it
ChatSpecInit ==
  /\ Init
  /\ access_token = "t1"
  /\ route = "/"

ChatSpecNext ==
  \/ AuthProviderEffect
  \/ \E i \in DOMAIN meInFlight : loadMeTry(i)
  \/ \E i \in DOMAIN meInFlight : loadMeCatch(i)
  \/ \E r \in {"/", "/settings"} : Navigate(r)
  \/ ChatNext

SpecChat == ChatSpecInit /\ [][ChatSpecNext]_vars

\* the Chat view with its document selector: the list is fetched and
\* polled, rows are toggled, questions are asked with the selection
SelectionSpecInit ==
  /\ Init
  /\ access_token = "t1"
  /\ route = "/"
  /\ chat_messages # Absent
  /\ chat_conversation_id = AbsentId

SelectionSpecNext ==
  \/ AuthProviderEffect
  \/ \E i \in DOMAIN meInFlight : loadMeTry(i)
  \/ \E i \in DOMAIN meInFlight : loadMeCatch(i)
  \/ \E r \in {"/", "/settings"} : Navigate(r)
  \/ handleSend("q1")
  \/ \E i \in DOMAIN chatInFlight, response \in {r \in Responses : r.answer = "a1"} :
       handleSendTry(i, response)
  \/ \E i \in DOMAIN chatInFlight, f \in {g \in Failures : g.kind = "network"} :
       handleSendCatch(i, f)
  \/ \E confirmed \in BOOLEAN : handleClearChat(confirmed)
  \/ SelectionNext
  \/ ChatPollTick
  \/ \E i \in DOMAIN fetchInFlight : ServerAnswerFetch(i)
  \/ \E i \in DOMAIN fetchInFlight : fetchDocsTry(i)
  \/ \E i \in DOMAIN fetchInFlight : fetchDocsCatch(i)

SpecSelection == SelectionSpecInit /\ [][SelectionSpecNext]_vars

\* the operations that set a busy flag, with every request completing: the
\* load effect's lookup, questions on the Chat view, uploads and foreground
\* refreshes on the Documents view
BusySpecInit ==
  /\ Init
  /\ access_token = "t1"
  /\ route \in {"/", "/documents"}
  /\ chat_messages = Absent

\* the response of GET /auth/me arrives and the continuation runs
MeCompletes ==
  \E i \in DOMAIN meInFlight : loadMeTry(i) \/ loadMeCatch(i)

\* the response of POST /chat/query arrives and the continuation runs
QueryCompletes ==
  \E i \in DOMAIN chatInFlight :
    \/ \E response \in {r \in Responses : r.answer = "a1"} : handleSendTry(i, response)
    \/ \E f \in {g \in Failures : g.kind = "server"} : handleSendCatch(i, f)

\* POST /documents/upload is answered and the continuation runs
UploadCompletes ==
  \E i \in DOMAIN uploadInFlight :
    \/ ServerAnswerUpload(i)
    \/ handleFileUploadTry(i)
    \/ \E f \in {g \in Failures : g.kind = "server"} : handleFileUploadCatch(i, f)

\* GET /documents is answered and the continuation runs
FetchCompletes ==
  \E i \in DOMAIN fetchInFlight :
    \/ ServerAnswerFetch(i)
    \/ fetchDocumentsTry(i)
    \/ fetchDocumentsCatch(i)
    \/ fetchDocsTry(i)
    \/ fetchDocsCatch(i)

BusySpecNext ==
  \/ AuthProviderEffect
  \/ MeCompletes
  \/ \E r \in {"/", "/documents"} : Navigate(r)
  \/ handleSend("q1")
  \/ QueryCompletes
  \/ handleFileUpload(1)
  \/ UploadCompletes
  \/ FetchCompletes

\* React runs the mount effect, and every request that is outstanding is
\* answered or fails, after which the event loop runs its continuation
BusyFairness ==
  /\ WF_vars(AuthProviderEffect)
  /\ WF_vars(MeCompletes)
  /\ WF_vars(QueryCompletes)
  /\ WF_vars(UploadCompletes)
  /\ WF_vars(FetchCompletes)

SpecBusy == BusySpecInit /\ [][BusySpecNext]_vars /\ BusyFairness

\* a session that stays signed in, on the Documents view and off it
DocumentsSpecInit ==
  /\ Init
  /\ access_token = "t1"
  /\ route = "/documents"
  /\ chat_messages = Absent

DocumentsSpecNext ==
  \/ AuthProviderEffect
  \/ \E i \in DOMAIN meInFlight : loadMeTry(i)
  \/ \E i \in DOMAIN meInFlight : loadMeCatch(i)
  \/ \E r \in {"/documents", "/settings"} : Navigate(r)
  \/ DocumentsNext
  \/ \E i \in DOMAIN fetchInFlight : ServerAnswerFetch(i)
  \/ \E i \in DOMAIN fetchInFlight : fetchDocumentsTry(i)
  \/ \E i \in DOMAIN fetchInFlight : fetchDocumentsCatch(i)

SpecDocuments == DocumentsSpecInit /\ [][DocumentsSpecNext]_vars

(***************************************************************************)
(* Properties.                                                             *)
(***************************************************************************)
\* the message sequence as persisted under chat_messages
StoredMessages == InitialMessages(chat_messages)

Last(s) == s[Len(s)]

\* C1: every send call with non-empty text grows the message sequence, in
\* view state and as persisted under chat_messages, by exactly two entries:
\* the user message when the call is accepted and one assistant message
\* (the answer, or the synthetic error) when its request completes; a call
\* never leaves the sequence grown by one.
C1_SendGrowsByTwo ==
  [][/\ Len(chatInFlight') > Len(chatInFlight) =>
          /\ Len(StoredMessages') = Len(StoredMessages) + 1
          /\ Last(StoredMessages').role = "user"
          /\ messages' = StoredMessages'
     /\ Len(chatInFlight') < Len(chatInFlight) =>
          /\ Len(StoredMessages') = Len(StoredMessages) + 1
          /\ Last(StoredMessages').role = "assistant"
          /\ view = "chat" => messages' = StoredMessages'
    ]_vars

\* C2: right after a confirmed clear the message sequence is empty, the
\* conversation identifier is undefined and neither chat_messages nor
\* chat_conversation_id is a key of the storage.
C2_ClearRemovesKeys ==
  lastOp.op = "handleClearChat" =>
    /\ messages = <<>>
    /\ conversationId = Undefined
    /\ ~chat_messages.present
    /\ ~chat_conversation_id.present

\* the GET /auth/me requests of the load effect that are outstanding
InitRequests == {i \in DOMAIN meInFlight : meInFlight[i].kind = "init"}

\* C3: initialization starts in loading; with no stored token the effect
\* leaves loading at once, anonymous, without a request; with a stored token
\* it issues one GET /auth/me carrying it and stays in loading until the
\* answer: success makes the returned user the current user, any error
\* removes the token and leaves the session anonymous; loading never comes
\* back.
C3_Initialization ==
  /\ [](/\ ~authEffectRun => loading /\ user = NoUser /\ meInFlight = <<>>
        /\ loading /\ authEffectRun => Cardinality(InitRequests) = 1
        /\ ~loading => InitRequests = {}
        /\ lastOp.op = "AuthProviderEffect" /\ access_token = NoToken =>
             ~loading /\ user = NoUser /\ meInFlight = <<>>
        /\ lastOp.op = "AuthProviderEffect" /\ access_token # NoToken =>
             /\ loading
             /\ meInFlight = <<[kind |-> "init",
                                auth |-> [present |-> TRUE, scheme |-> "Bearer",
                                          credentials |-> access_token]]>>
        /\ lastOp.op = "loadMeTry" => ~loading /\ user # NoUser
        /\ lastOp.op = "loadMeCatch" =>
             ~loading /\ user = NoUser /\ access_token = NoToken)
  /\ [][/\ ~loading => ~loading'
        /\ \A i \in InitRequests :
             lastOp'.op = "loadMeTry" /\ meInFlight' = RemoveAt(meInFlight, i)
               => user' = UserOf(meInFlight[i].auth.credentials)
       ]_vars

C3_Witness ==
  /\ lastOp.op = "loadMeCatch"
  /\ ~loading
  /\ access_token = NoToken

\* the GET /auth/me requests of login calls that are outstanding
LoginRequests == {i \in DOMAIN meInFlight : meInFlight[i].kind = "login"}

\* C4: login(token) persists the token, and when its identity lookup
\* succeeds the session is authenticated with the fetched user: the user is
\* set and loading is false once login completes.
C4_LoginAuthenticates ==
  [][/\ lastOp'.op = "login" =>
          /\ access_token' \in Tokens
          /\ Last(meInFlight').auth = [present |-> TRUE, scheme |-> "Bearer",
                                       credentials |-> access_token']
     /\ \A i \in LoginRequests :
          lastOp'.op = "loginTry" /\ meInFlight' = RemoveAt(meInFlight, i)
            => /\ user' = UserOf(meInFlight[i].auth.credentials)
               /\ ~loading'
    ]_vars

\* C5: a login whose identity lookup fails removes the token from the
\* storage, leaves the current user null and rethrows the error to its
\* caller.
C5_LoginRollsBack ==
  lastOp.op = "loginCatch" =>
    /\ access_token = NoToken
    /\ user = NoUser
    /\ lastOp.thrown

C5_Witness ==
  /\ lastOp.op = "loginCatch"
  /\ authEffectRun
  /\ ~loading

\* C6: after logout no token is stored, the current user is null, the
\* location is the login screen and the session is anonymous (not loading,
\* no protected view mounted).
C6_Logout ==
  lastOp.op = "logout" =>
    /\ access_token = NoToken
    /\ user = NoUser
    /\ route = "/login"
    /\ ~loading
    /\ view = "none"

C6_Witness ==
  /\ lastOp.op = "logout"
  /\ route = "/login"

\* C7: while the session is loading no protected view is mounted, no poller
\* runs and no document, chat or analytics request is outstanding (loading
\* never comes back, so none was issued before it ended); a protected view
\* is mounted only when loading has ended and a user is present.
C7_LoadingGate ==
  /\ loading =>
       /\ view = "none"
       /\ ~chatTimer /\ ~docsTimer
       /\ fetchInFlight = <<>> /\ analyticsInFlight = <<>>
       /\ chatInFlight = <<>> /\ uploadInFlight = <<>> /\ deleteInFlight = <<>>
  /\ view # "none" => ~loading /\ user # NoUser /\ route \in ProtectedRoutes

\* a login has set the user while the load effect's lookup is outstanding:
\* the protected route still shows the spinner
C7_Witness ==
  /\ loading
  /\ user # NoUser
  /\ route \in ProtectedRoutes
  /\ view = "none"

Occurrences(s, e) == Cardinality({j \in DOMAIN s : s[j] = e})

\* t is s with some entries left out, the others in the same order
RECURSIVE IsSubsequence(_, _)
IsSubsequence(t, s) ==
  IF t = <<>> THEN TRUE
  ELSE IF s = <<>> THEN FALSE
  ELSE IF Head(t) = Head(s) THEN IsSubsequence(Tail(t), Tail(s))
  ELSE IsSubsequence(t, Tail(s))

C9_BackgroundRefreshSilent ==
  [][/\ lastOp'.op = "DocsPollTick" =>
          UNCHANGED <<docsIsLoading, error, documents>>
     /\ \A i \in DOMAIN fetchInFlight :
          /\ lastOp'.op \in {"fetchDocumentsTry", "fetchDocumentsCatch"}
          /\ fetchInFlight' = RemoveAt(fetchInFlight, i)
          /\ fetchInFlight[i].bg
          => /\ docsIsLoading' = docsIsLoading
             /\ error' = error
             /\ lastOp'.op = "fetchDocumentsCatch" => documents' = documents
    ]_vars

\* a failed background refresh behind a list that an earlier fetch loaded
C9_Witness ==
  /\ lastOp.op = "fetchDocumentsCatch"
  /\ documents # <<>>
  /\ error = NoError
  /\ ~docsIsLoading

\* the foreground GET /documents requests that are outstanding
ForegroundFetches ==
  {i \in DOMAIN fetchInFlight :
     fetchInFlight[i].owner = "documents" /\ ~fetchInFlight[i].bg}

\* C10: the loading flag is set while a foreground refresh is outstanding;
\* when a foreground refresh fails the error is set, the document list is
\* left as it was and the loading flag is cleared.
C10_ForegroundRefresh ==
  /\ [](ForegroundFetches # {} => docsIsLoading)
  /\ [][\A i \in ForegroundFetches :
          /\ lastOp'.op = "fetchDocumentsCatch"
          /\ fetchInFlight' = RemoveAt(fetchInFlight, i)
          => /\ error' = "Failed to load documents"
             /\ documents' = documents
             /\ ~docsIsLoading'
       ]_vars

\* C11: a send with empty or whitespace-only text, or while the in-flight
\* flag is set, appends no message and issues no request; every request
\* that is issued was issued with the flag clear and a non-blank text; at
\* most one /chat/query request is outstanding at any time.
C11_SendGuard ==
  /\ [](Len(chatInFlight) <= 1)
  /\ [][/\ lastOp'.op = "handleSendReturn" =>
             UNCHANGED <<messages, chatInFlight, chat_messages, chatIsLoading>>
        /\ Len(chatInFlight') > Len(chatInFlight) =>
             /\ ~chatIsLoading
             /\ chatIsLoading'
             /\ trim(Last(chatInFlight').query) # ""
       ]_vars

\* the requests of the mounted Chat view that are outstanding
LiveQueries == {i \in DOMAIN chatInFlight : chatInFlight[i].live}

ErrorContents ==
  {"Error: " \o m : m \in {unwrap(f) : f \in Failures} \cup {"Something went wrong."}}

C14_WriteThrough ==
  view = "chat" =>
    /\ chat_messages.present
    /\ JSONparse(chat_messages.value) = messages
    /\ conversationId = Undefined => ~chat_conversation_id.present
    /\ conversationId # Undefined =>
         chat_conversation_id = [present |-> TRUE, value |-> conversationId]

\* a conversation whose identifier the server has replaced
C14_Witness ==
  /\ view = "chat"
  /\ Len(messages) >= 2
  /\ conversationId = "c2"
  /\ chat_conversation_id = [present |-> TRUE, value |-> "c2"]
  /\ lastOp.op = "handleSendTry"

\* C15: every authentication failure, on any endpoint, is delivered to its
\* caller normalized like a server-reported failure (the message is the
\* response's detail) and clears the stored token: after the identity
\* lookup of the load effect fails, and after a chat query is rejected as
\* not authenticated, no token is stored.
C15_AuthFailureClearsToken ==
  [][/\ lastOp'.op = "loadMeCatch" => access_token' = NoToken
     /\ \A i \in LiveQueries :
          /\ lastOp'.op = "handleSendCatch"
          /\ chatInFlight' = RemoveAt(chatInFlight, i)
          /\ Last(messages').content = "Error: Not authenticated"
          => access_token' = NoToken
    ]_vars

\* the header that a request issued while `tok` is stored has to carry
BearerOrNone(tok) ==
  IF tok = NoToken
  THEN [present |-> FALSE, scheme |-> "", credentials |-> ""]
  ELSE [present |-> TRUE, scheme |-> "Bearer", credentials |-> tok]

\* the request that a step has added to the in-flight sequence s
Issued(s, t) == Len(t) > Len(s) \/ (view' # view /\ t # <<>>)

\* C16: every request, at the run that issues it, carries Authorization:
\* Bearer <token> with the token stored at that moment, and no
\* Authorization header when no token is stored: the identity lookups, the
\* GET /documents of both views (mount, poll, refresh after an upload), the
\* analytics load, the chat query, the upload and the delete.
C16_AuthorizationHeader ==
  [][/\ Len(meInFlight') > Len(meInFlight) =>
          Last(meInFlight').auth = BearerOrNone(access_token')
     /\ Issued(fetchInFlight, fetchInFlight') =>
          Last(fetchInFlight').auth = BearerOrNone(access_token')
     /\ Issued(analyticsInFlight, analyticsInFlight') =>
          Last(analyticsInFlight').auth = BearerOrNone(access_token')
     /\ Len(chatInFlight') > Len(chatInFlight) =>
          Last(chatInFlight').auth = BearerOrNone(access_token')
     /\ Len(uploadInFlight') > Len(uploadInFlight) =>
          Last(uploadInFlight').auth = BearerOrNone(access_token')
     /\ Len(deleteInFlight') > Len(deleteInFlight) =>
          Last(deleteInFlight').auth = BearerOrNone(access_token')
    ]_vars

\* the Documents view mounted, and its first fetch issued, with no token in
\* the storage
C16_Witness ==
  /\ lastOp.op = "Navigate"
  /\ view = "documents"
  /\ access_token = NoToken
  /\ Len(fetchInFlight) = 1
  /\ ~fetchInFlight[1].auth.present

\* the messages that a caller of the wrapper can be given
NormalizedMessages == {unwrap(f) : f \in Failures} \cup {"Request failed"}

\* C17: a caller of the HTTP layer is given the payload or one normalized
\* error whose message is the server-supplied one when the response has one
\* and a fallback otherwise, never the transport-level error: the error
\* that the Analytics view keeps is such a message.
C17_NormalizedErrors ==
  analytics.error \in {NoError} \cup NormalizedMessages

\* the uploads of the mounted Documents view that are outstanding
LiveUploads == {i \in DOMAIN uploadInFlight : uploadInFlight[i].live}

C19_PollersCancelled ==
  /\ [](/\ docsTimer <=> view = "documents"
        /\ chatTimer <=> view = "chat")
  /\ [][/\ lastOp'.op = "DocsPollTick" =>
             /\ view = "documents" /\ view' = view
             /\ Last(fetchInFlight').owner = "documents"
        /\ lastOp'.op = "ChatPollTick" =>
             /\ view = "chat" /\ view' = view
             /\ Last(fetchInFlight').owner = "chat"
        /\ view' \notin {"chat", "documents"} =>
             Len(fetchInFlight') <= Len(fetchInFlight)
       ]_vars

\* logout has torn the view down: no timer is left and nothing is in flight
C19_Witness ==
  /\ lastOp.op = "logout"
  /\ view = "none"
  /\ ~docsTimer
  /\ ~chatTimer
  /\ fetchInFlight = <<>>

PersistedMessages ==
  IF chat_messages.present THEN JSONparse(chat_messages.value) ELSE <<>>

\* C21: the message sequence is append-only and never reordered: every step
\* other than a confirmed clear leaves the messages of the mounted Chat
\* view, and the sequence persisted under chat_messages, as an unchanged
\* prefix of the new sequence.
C21_AppendOnly ==
  [][lastOp'.op # "handleClearChat" =>
       /\ IsPrefix(PersistedMessages, PersistedMessages')
       /\ view = "chat" /\ view' = "chat" => IsPrefix(messages, messages')
    ]_vars

\* two questions asked and answered, the second answer just appended
C21_Witness ==
  /\ lastOp.op = "handleSendTry"
  /\ view = "chat"
  /\ Len(messages) = 4
  /\ messages[1].role = "user" /\ messages[2].role = "assistant"
  /\ messages[3].content = "q2" /\ messages[4].id = "now_ai"

\* C22: the document list reflects only the latest successful fetch: the
\* response of a GET /documents that was issued earlier never brings back
\* an entry that a successful delete has since removed, so a fetch response
\* adds to the list only entries that the backend still has.
C22_LatestFetchWins ==
  [][lastOp'.op = "fetchDocumentsTry" =>
       (Range(documents') \ Range(documents)) \subseteq serverDocs'
    ]_vars

\* C23: no race on the durable storage under any interleaving of the load
\* effect's identity lookup with a login: when the identity lookup of a
\* login succeeds a token is stored and the user is set, and the response
\* of the load effect's lookup that arrives after a login has set the user
\* leaves a token stored and the user set.
C23_NoStorageRace ==
  [][/\ lastOp'.op = "loginTry" =>
          access_token' \in Tokens /\ user' # NoUser
     /\ lastOp'.op \in {"loadMeTry", "loadMeCatch"} /\ user # NoUser =>
          access_token' \in Tokens /\ user' # NoUser
    ]_vars

C25_BusyFlagsCleared ==
  /\ loading ~> ~loading
  /\ chatIsLoading ~> ~chatIsLoading
  /\ isUploading ~> ~isUploading
  /\ docsIsLoading ~> ~docsIsLoading

\* the refresh after a successful upload has failed: the error is shown and
\* both flags are clear
C25_Witness ==
  /\ lastOp.op = "fetchDocumentsCatch"
  /\ view = "documents"
  /\ Cardinality(serverDocs) = InitialDocs + 1
  /\ error = "Failed to load documents"
  /\ ~isUploading
  /\ ~docsIsLoading
  /\ fetchInFlight = <<>>


\* C26: in every reachable state of the session store, a non-null current
\* user implies that a token is present in durable storage.
C26_UserImpliesToken ==
  user # NoUser => access_token \in Tokens

=============================================================================
